---- MODULE Spec2Model ----
(***************************************************************************)
(* owo.rs: a client for the owo.whats-th.is API.  Two bridges implement    *)
(* the requester trait: a synchronous one over reqwest (upload_file,       *)
(* upload_files, shorten_url) and an asynchronous one over hyper           *)
(* (shorten_url only).  The repository holds two revisions of each bridge: *)
(* src/bridge/reqwest.rs and src/bridge/hyper.rs (flat modules) and        *)
(* src/bridge/reqwest/mod.rs and src/bridge/hyper/mod.rs (with the         *)
(* OwoClient wrapper and the oneshot functions).  A build holds one bridge *)
(* module per feature; the variable `build` names the one in use.          *)
(*                                                                         *)
(* Strings are sequences of fragments: a fragment is one character of a    *)
(* caller-supplied string or one literal piece of a format! template.      *)
(* Byte sequences are sequences of integers 0..255.                        *)
(***************************************************************************)
EXTENDS Integers, Sequences, FiniteSets, TLC

VARIABLES
    build,      \* the bridge module compiled into the program
    OWO_KEY,    \* the service key the caller holds (OWO_KEY)
    call,       \* the caller's most recent call of the library: the operation and its
                \* arguments and, once it has returned, what the executor answered,
                \* the requests it was handed and the value returned
    owo,        \* the OwoClient wrapper the caller holds, if any
    futures,    \* the FutureResponse handles created so far, in call order
    driving,    \* indices of the futures the caller is driving with core.run
    doc         \* a FileUploadResponse the caller encodes to JSON and decodes again

vars == <<build, OWO_KEY, call, owo, futures, driving, doc>>

----------------------------------------------------------------------------
(* Bounds of the model *)

\* longest payload vector handed to upload_files (one more than MAX_FILES)
MaxFilesLen == 4
\* most files in a FileUploadResponse the caller builds to encode it
MaxResponseFiles == 2
\* most FutureResponse handles alive in one run
MaxFutures == 2

----------------------------------------------------------------------------
(* src/constants.rs *)

MAX_FILES == 3

SHORTEN_PREFIX == "https://api.awau.moe/shorten/polr?action=shorten&url="
SHORTEN_KEY == "&key="
UPLOAD_PREFIX == "https://api.awau.moe/upload/pomf?key="

CARGO_PKG_VERSION == "0.2"
USER_AGENT ==
    <<"WhatsThisClient (https://github.com/whats-this/owo.rs, ", CARGO_PKG_VERSION, ")">>

----------------------------------------------------------------------------
(* Result<T, Error> and Option<T> *)

Ok(v) == [ok |-> TRUE, val |-> v]
\* a failure: the error's type (or, for owo::Error, its variant) and its detail
Fail(e, detail) == [ok |-> FALSE, err |-> e, detail |-> detail]

None == [some |-> FALSE]
Some(x) == [some |-> TRUE, v |-> x]

\* the variants of owo::Error
ErrorVariants == {"Io", "Json", "NativeTls", "Reqwest", "TooManyFiles", "Uri"}

\* mutant: an io::Error is wrapped in the transport variant
From_io_as_reqwest(source) ==
    CASE source = "std::io::Error" -> "Reqwest"
      [] source = "serde_json::Error" -> "Json"
      [] source = "reqwest::Error" -> "Reqwest"
      [] source = "native_tls::Error" -> "NativeTls"
      [] source = "hyper::error::UriError" -> "Uri"

\* From<IoError>, From<JsonError>, From<ReqwestError>, From<NativeTlsError>,
\* From<UriError>: the `?` operator wraps a dependency's error in its variant.
From(source) ==
    CASE source = "std::io::Error" -> "Io"
      [] source = "serde_json::Error" -> "Json"
      [] source = "reqwest::Error" -> "Reqwest"
      [] source = "native_tls::Error" -> "NativeTls"
      [] source = "hyper::error::UriError" -> "Uri"

\* the `?` operator and map_err(From::from) on a failed dependency call
Try(failure) == Fail(From(failure.err), failure.detail)

----------------------------------------------------------------------------
(* Inputs: the caller's arguments *)

\* characters a caller-supplied key or url is made of; " " is not a URI character,
\* "&" and "=" delimit the parameters of a query
Chars == {"a", "b", " ", "&", "k", "e", "y", "=", "x"}

Keys == {<<"a">>, <<"b", "a">>}
\* the second url carries a key parameter of its own
Urls == {<<"b">>, <<"b", "&", "k", "e", "y", "=", "x">>, <<"a", " ">>}

\* file contents: Vec<u8>
Payloads == {<<7>>, <<8, 9>>}

RECURSIVE SeqsUpTo(_, _)
SeqsUpTo(S, n) ==
    IF n = 0 THEN {<<>>}
    ELSE LET shorter == SeqsUpTo(S, n - 1)
         IN shorter \cup {Append(s, x) : s \in {t \in shorter : Len(t) = n - 1}, x \in S}

FileVectors == SeqsUpTo(Payloads, MaxFilesLen)

----------------------------------------------------------------------------
(* JSON values, as serde_json reads them from a response body *)

JNull == [t |-> "null"]
JBool(b) == [t |-> "bool", b |-> b]
JNum(n) == [t |-> "num", n |-> n]
JStr(s) == [t |-> "str", s |-> s]
JArr(a) == [t |-> "arr", a |-> a]
JObj(o) == [t |-> "obj", o |-> o]

\* a serde_json::Error of the given category
JsonErr(cat) == Fail("serde_json::Error", cat)

\* field `name` of a struct read from JSON value v: by key from an object,
\* by position `pos` from an array (serde's visit_map and visit_seq)
Field(v, name, pos) ==
    IF v.t = "obj"
    THEN IF name \in DOMAIN v.o THEN Some(v.o[name]) ELSE None
    ELSE IF pos <= Len(v.a) THEN Some(v.a[pos]) ELSE None

\* mutant: a null name is read as the empty string
de_UploadedFile_null_as_empty(v) ==
    IF v.t \notin {"obj", "arr"} THEN JsonErr("Data")
    ELSE IF v.t = "arr" /\ Len(v.a) # 4 THEN JsonErr("Data")
    ELSE LET hash == Field(v, "hash", 1)
             name == Field(v, "name", 2)
             size == Field(v, "size", 3)
             url == Field(v, "url", 4)
         IN IF ~hash.some \/ ~size.some \/ ~url.some THEN JsonErr("Data")
            ELSE IF hash.v.t # "str" \/ url.v.t # "str" THEN JsonErr("Data")
            ELSE IF size.v.t # "num" THEN JsonErr("Data")
            ELSE IF size.v.n < 0 THEN JsonErr("Data")
            ELSE IF name.some /\ name.v.t \notin {"null", "str"} THEN JsonErr("Data")
            ELSE Ok([hash |-> hash.v.s,
                     name |-> IF name.some /\ name.v.t = "str"
                              THEN Some(name.v.s) ELSE Some(""),
                     size |-> size.v.n,
                     url |-> url.v.s])

\* #[derive(Deserialize)] struct UploadedFile { hash: String, name: Option<String>,
\* size: u64, url: String }
de_UploadedFile(v) ==
    IF v.t \notin {"obj", "arr"} THEN JsonErr("Data")
    ELSE IF v.t = "arr" /\ Len(v.a) # 4 THEN JsonErr("Data")
    ELSE LET hash == Field(v, "hash", 1)
             name == Field(v, "name", 2)
             size == Field(v, "size", 3)
             url == Field(v, "url", 4)
         IN IF ~hash.some \/ ~size.some \/ ~url.some THEN JsonErr("Data")
            ELSE IF hash.v.t # "str" \/ url.v.t # "str" THEN JsonErr("Data")
            ELSE IF size.v.t # "num" THEN JsonErr("Data")
            ELSE IF size.v.n < 0 THEN JsonErr("Data")
            ELSE IF name.some /\ name.v.t \notin {"null", "str"} THEN JsonErr("Data")
            ELSE Ok([hash |-> hash.v.s,
                     name |-> IF name.some /\ name.v.t = "str"
                              THEN Some(name.v.s) ELSE None,
                     size |-> size.v.n,
                     url |-> url.v.s])

\* mutant: only the first entry of `files` is kept
de_FileUploadResponse_first_only(v) ==
    IF v.t \notin {"obj", "arr"} THEN JsonErr("Data")
    ELSE IF v.t = "arr" /\ Len(v.a) # 2 THEN JsonErr("Data")
    ELSE LET files == Field(v, "files", 1)
             success == Field(v, "success", 2)
         IN IF ~files.some \/ ~success.some THEN JsonErr("Data")
            ELSE IF files.v.t # "arr" \/ success.v.t # "bool" THEN JsonErr("Data")
            ELSE LET each == [i \in 1..Len(files.v.a) |-> de_UploadedFile(files.v.a[i])]
                 IN IF \E i \in 1..Len(each) : ~each[i].ok THEN JsonErr("Data")
                    ELSE Ok([files |-> [i \in 1..(IF Len(each) > 1 THEN 1 ELSE Len(each))
                                           |-> each[i].val],
                             success |-> success.v.b])

\* #[derive(Deserialize)] struct FileUploadResponse { files: Vec<UploadedFile>,
\* success: bool }
de_FileUploadResponse(v) ==
    IF v.t \notin {"obj", "arr"} THEN JsonErr("Data")
    ELSE IF v.t = "arr" /\ Len(v.a) # 2 THEN JsonErr("Data")
    ELSE LET files == Field(v, "files", 1)
             success == Field(v, "success", 2)
         IN IF ~files.some \/ ~success.some THEN JsonErr("Data")
            ELSE IF files.v.t # "arr" \/ success.v.t # "bool" THEN JsonErr("Data")
            ELSE LET each == [i \in 1..Len(files.v.a) |-> de_UploadedFile(files.v.a[i])]
                 IN IF \E i \in 1..Len(each) : ~each[i].ok THEN JsonErr("Data")
                    ELSE Ok([files |-> [i \in 1..Len(each) |-> each[i].val],
                             success |-> success.v.b])

\* mutant: an absent name is written as the empty string
ser_UploadedFile_none_as_empty(file) ==
    JObj([hash |-> JStr(file.hash),
          name |-> IF file.name.some THEN JStr(file.name.v) ELSE JStr(""),
          size |-> JNum(file.size),
          url |-> JStr(file.url)])

\* #[derive(Serialize)] struct UploadedFile: a map of the four fields; serde
\* writes Some(s) as the string and None as null
ser_UploadedFile(file) ==
    JObj([hash |-> JStr(file.hash),
          name |-> IF file.name.some THEN JStr(file.name.v) ELSE JNull,
          size |-> JNum(file.size),
          url |-> JStr(file.url)])

\* #[derive(Serialize)] struct FileUploadResponse: a map of `files`, a sequence
\* in the order of the Vec, and `success`
ser_FileUploadResponse(response) ==
    JObj([files |-> JArr([i \in 1..Len(response.files) |->
                             ser_UploadedFile(response.files[i])]),
          success |-> JBool(response.success)])

\* the values of UploadedFile and FileUploadResponse a caller builds
UploadedFiles ==
    [hash : {"abc"}, name : {None, Some("a.png")}, size : {0, 42}, url : {"/abc.png"}]
FileUploadResponses ==
    [files : SeqsUpTo(UploadedFiles, MaxResponseFiles), success : BOOLEAN]

----------------------------------------------------------------------------
(* Response bodies *)

\* A body read as JSON is a sequence of lexemes: a byte, or the text of one JSON
\* value.  A body read as text is a sequence of bytes.
Byte(b) == [b |-> b]
Json(v) == [j |-> v]

IsWhitespace(tok) == "b" \in DOMAIN tok /\ tok.b \in {32, 9, 10, 13}

\* index of the first lexeme at or after i that is not JSON whitespace
RECURSIVE SkipWhitespace(_, _)
SkipWhitespace(body, i) ==
    IF i > Len(body) THEN i
    ELSE IF IsWhitespace(body[i]) THEN SkipWhitespace(body, i + 1)
    ELSE i

\* serde_json::from_reader::<_, FileUploadResponse>: one value, then only
\* whitespace up to the end of the stream.  `broken` is a stream that fails
\* with an I/O error once `body` has been delivered.
from_reader(body, broken) ==
    LET i == SkipWhitespace(body, 1)
    IN IF i > Len(body) THEN JsonErr(IF broken THEN "Io" ELSE "Eof")
       ELSE IF "j" \notin DOMAIN body[i] THEN JsonErr("Syntax")
       ELSE LET value == de_FileUploadResponse(body[i].j)
                end == SkipWhitespace(body, i + 1)
            IN IF ~value.ok THEN value
               ELSE IF end <= Len(body) THEN JsonErr("Syntax")
               ELSE IF broken THEN JsonErr("Io")
               ELSE value

\* serde_json::to_string of a FileUploadResponse: the text of one JSON value
to_string(response) == <<Json(ser_FileUploadResponse(response))>>

\* serde_json::from_str::<FileUploadResponse>: as from_reader, on a text that is
\* all there
from_str(text) == from_reader(text, FALSE)

\* the character a one-byte or two-byte UTF-8 sequence encodes
Utf8Char(bytes) ==
    CASE bytes = <<97>> -> "a"
      [] bytes = <<98>> -> "b"
      [] bytes = <<32>> -> " "
      [] bytes = <<47>> -> "/"
      [] bytes = <<195, 169>> -> "e-acute"
      [] OTHER -> "?"

\* std::str::from_utf8 on the bytes from position i: the characters, or the
\* io::Error (InvalidData) read_to_string reports for a stream that is not UTF-8
RECURSIVE Utf8Decode(_, _)
Utf8Decode(bytes, i) ==
    IF i > Len(bytes) THEN Ok(<<>>)
    ELSE IF bytes[i] < 128
    THEN LET rest == Utf8Decode(bytes, i + 1)
         IN IF rest.ok THEN Ok(<<Utf8Char(<<bytes[i]>>)>> \o rest.val) ELSE rest
    ELSE IF bytes[i] >= 194 /\ bytes[i] <= 223
            /\ i + 1 <= Len(bytes) /\ bytes[i + 1] >= 128 /\ bytes[i + 1] <= 191
    THEN LET rest == Utf8Decode(bytes, i + 2)
         IN IF rest.ok THEN Ok(<<Utf8Char(<<bytes[i], bytes[i + 1]>>)>> \o rest.val)
            ELSE rest
    ELSE Fail("std::io::Error", "InvalidData")

\* mutant: bytes that are not UTF-8 are replaced instead of reported
read_to_string_lossy(body, broken, buffer) ==
    IF broken THEN Fail("std::io::Error", "ConnectionAborted")
    ELSE LET text == Utf8Decode(body, 1)
         IN IF text.ok THEN Ok(buffer \o text.val) ELSE Ok(buffer \o <<"?">>)

\* Read::read_to_string(&mut buffer): appends the stream's text to buffer, or
\* fails with an io::Error when the stream fails or is not UTF-8
read_to_string(body, broken, buffer) ==
    IF broken THEN Fail("std::io::Error", "ConnectionAborted")
    ELSE LET text == Utf8Decode(body, 1)
         IN IF text.ok THEN Ok(buffer \o text.val) ELSE text

\* String::as_bytes: the UTF-8 bytes of a string of the characters above
RECURSIVE as_bytes(_)
as_bytes(s) ==
    IF s = <<>> THEN <<>>
    ELSE (CASE Head(s) = "a" -> <<97>>
            [] Head(s) = "b" -> <<98>>
            [] Head(s) = " " -> <<32>>
            [] Head(s) = "/" -> <<47>>
            [] Head(s) = "e-acute" -> <<195, 169>>
            [] OTHER -> <<63>>) \o as_bytes(Tail(s))

----------------------------------------------------------------------------
(* Requests and what the executor answers *)

\* Headers::set: one value per header name
set(headers, name, value) ==
    {h \in headers : h.name # name} \cup {[name |-> name, value |-> value]}

\* Form::part: the parts of a multipart form, in the order they were added
part(form, name, data) == Append(form, [name |-> name, data |-> data])

\* what send() of the blocking executor comes back with: a transport failure,
\* or a response with a status and a body stream
SendFailed == [send |-> "err"]
Response(status, body, broken) ==
    [send |-> "ok", status |-> status, body |-> body, broken |-> broken]

Statuses == {200, 500}

\* the response of the upload endpoint for one uploaded file
OneFile ==
    JObj([success |-> JBool(TRUE),
          files |-> JArr(<<JObj([hash |-> JStr("abc"), name |-> JNull,
                                 size |-> JNum(42), url |-> JStr("/abc.png")])>>)])
\* the response for two uploaded files, the first with its name reported
TwoFiles ==
    JObj([success |-> JBool(TRUE),
          files |-> JArr(<<JObj([hash |-> JStr("def"), name |-> JStr("a.png"),
                                 size |-> JNum(0), url |-> JStr("/def.png")]),
                           JObj([hash |-> JStr("abc"), name |-> JNull,
                                 size |-> JNum(42), url |-> JStr("/abc.png")])>>)])
NoFiles == JObj([success |-> JBool(TRUE), files |-> JArr(<<>>)])
\* the service refuses the upload
Refused == JObj([success |-> JBool(FALSE), files |-> JArr(<<>>)])
NoSuccess == JObj([files |-> JArr(<<>>)])

UploadBodies ==
    {<<>>, <<Json(OneFile)>>, <<Json(TwoFiles)>>, <<Json(NoFiles)>>, <<Json(Refused)>>,
     <<Json(NoSuccess)>>, <<Json(JNull)>>,
     <<Byte(32), Json(OneFile), Byte(10)>>, <<Json(OneFile), Byte(97)>>, <<Byte(97)>>}

UploadAnswers ==
    {SendFailed} \cup
    {Response(st, b, br) : st \in Statuses, b \in UploadBodies, br \in BOOLEAN}

ShortenBodies == {<<>>, <<97, 47, 98>>, <<32, 97, 32>>, <<195, 169>>, <<97, 255>>, <<195>>}

ShortenAnswers ==
    {SendFailed} \cup
    {Response(st, b, br) : st \in Statuses, b \in ShortenBodies, br \in BOOLEAN}

----------------------------------------------------------------------------
(* The synchronous bridge: impl OwoRequester for reqwest::Client.            *)
(* Each operation yields the requests it handed to send() and its result.   *)

SyncBuilds == {"reqwest.rs", "reqwest/mod.rs"}

\* the flat module src/bridge/reqwest.rs sets no header on its requests
legacy_headers == {}

\* mutant: a failed send() is tried once more
upload_retry(rev, uri, form, answer) ==
    LET request == [method |-> "POST",
                    uri |-> uri,
                    headers |-> IF rev = "reqwest/mod.rs"
                                THEN set({}, "User-Agent", USER_AGENT)
                                ELSE legacy_headers,
                    multipart |-> Some(form)]
    IN IF answer.send = "err"
       THEN [requests |-> <<request, request>>,
             result |-> Try(Fail("reqwest::Error", "send"))]
       ELSE LET decoded == from_reader(answer.body, answer.broken)
            IN [requests |-> <<request>>,
                result |-> IF decoded.ok THEN decoded ELSE Try(decoded)]

\* mutant: a response with an error status is turned into a failure
upload_status_checked(rev, uri, form, answer) ==
    LET request == [method |-> "POST",
                    uri |-> uri,
                    headers |-> IF rev = "reqwest/mod.rs"
                                THEN set({}, "User-Agent", USER_AGENT)
                                ELSE legacy_headers,
                    multipart |-> Some(form)]
    IN IF answer.send = "err"
       THEN [requests |-> <<request>>, result |-> Try(Fail("reqwest::Error", "send"))]
       ELSE IF answer.status >= 400
       THEN [requests |-> <<request>>, result |-> Try(Fail("reqwest::Error", "status"))]
       ELSE LET decoded == from_reader(answer.body, answer.broken)
            IN [requests |-> <<request>>,
                result |-> IF decoded.ok THEN decoded ELSE Try(decoded)]

\* mutant: a response that reports no success, or no file, is turned into an error
upload_validating(rev, uri, form, answer) ==
    LET request == [method |-> "POST",
                    uri |-> uri,
                    headers |-> IF rev = "reqwest/mod.rs"
                                THEN set({}, "User-Agent", USER_AGENT)
                                ELSE legacy_headers,
                    multipart |-> Some(form)]
    IN IF answer.send = "err"
       THEN [requests |-> <<request>>, result |-> Try(Fail("reqwest::Error", "send"))]
       ELSE LET decoded == from_reader(answer.body, answer.broken)
            IN [requests |-> <<request>>,
                result |-> IF ~decoded.ok THEN Try(decoded)
                           ELSE IF ~decoded.val.success \/ decoded.val.files = <<>>
                           THEN Try(JsonErr("Data"))
                           ELSE decoded]

upload(rev, uri, form, answer) ==
    LET request == [method |-> "POST",
                    uri |-> uri,
                    headers |-> IF rev = "reqwest/mod.rs"
                                THEN set({}, "User-Agent", USER_AGENT)
                                ELSE legacy_headers,
                    multipart |-> Some(form)]
    IN IF answer.send = "err"
       THEN [requests |-> <<request>>, result |-> Try(Fail("reqwest::Error", "send"))]
       ELSE LET decoded == from_reader(answer.body, answer.broken)
            IN [requests |-> <<request>>,
                result |-> IF decoded.ok THEN decoded ELSE Try(decoded)]

\* mutant: the part is named "file"
upload_file_named_file(rev, key, file, answer) ==
    LET uri == <<UPLOAD_PREFIX>> \o key
        form == part(<<>>, "file", file)
    IN upload(rev, uri, form, answer)


upload_file(rev, key, file, answer) ==
    LET uri == <<UPLOAD_PREFIX>> \o key
        form == part(<<>>, "files[]", file)
    IN upload(rev, uri, form, answer)

\* mutant: each part is put in front of the parts already in the form
RECURSIVE for_file_in_front(_, _)
for_file_in_front(files, form) ==
    IF files = <<>> THEN form
    ELSE for_file_in_front(Tail(files), <<[name |-> "files[]", data |-> Head(files)]>> \o form)

\* for file in files { form = form.part("files[]", ...) }
RECURSIVE for_file_in(_, _)
for_file_in(files, form) ==
    IF files = <<>> THEN form
    ELSE for_file_in(Tail(files), part(form, "files[]", Head(files)))

\* mutant: an empty vector is refused before anything is sent
upload_files_nonempty(rev, key, files, answer) ==
    IF Len(files) > MAX_FILES \/ Len(files) = 0
    THEN [requests |-> <<>>, result |-> Fail("TooManyFiles", "")]
    ELSE LET uri == <<UPLOAD_PREFIX>> \o key
             form == for_file_in(files, <<>>)
         IN upload(rev, uri, form, answer)

\* mutant: the check lets one file too many through
upload_files_off_by_one(rev, key, files, answer) ==
    IF Len(files) > MAX_FILES + 1
    THEN [requests |-> <<>>, result |-> Fail("TooManyFiles", "")]
    ELSE LET uri == <<UPLOAD_PREFIX>> \o key
             form == for_file_in(files, <<>>)
         IN upload(rev, uri, form, answer)


upload_files(rev, key, files, answer) ==
    IF Len(files) > MAX_FILES
    THEN [requests |-> <<>>, result |-> Fail("TooManyFiles", "")]
    ELSE LET uri == <<UPLOAD_PREFIX>> \o key
             form == for_file_in(files, <<>>)
         IN upload(rev, uri, form, answer)

\* mutant: the arguments of format! are given in the other order
reqwest_shorten_url_swapped(rev, key, url, answer) ==
    LET uri == <<SHORTEN_PREFIX>> \o key \o <<SHORTEN_KEY>> \o url
        request == [method |-> "GET",
                    uri |-> uri,
                    headers |-> IF rev = "reqwest/mod.rs"
                                THEN set({}, "User-Agent", USER_AGENT)
                                ELSE legacy_headers,
                    multipart |-> None]
    IN IF answer.send = "err"
       THEN [requests |-> <<request>>, result |-> Try(Fail("reqwest::Error", "send"))]
       ELSE LET read == read_to_string(answer.body, answer.broken, <<>>)
            IN [requests |-> <<request>>,
                result |-> IF read.ok THEN Ok(read.val) ELSE Try(read)]


reqwest_shorten_url(rev, key, url, answer) ==
    LET uri == <<SHORTEN_PREFIX>> \o url \o <<SHORTEN_KEY>> \o key
        request == [method |-> "GET",
                    uri |-> uri,
                    headers |-> IF rev = "reqwest/mod.rs"
                                THEN set({}, "User-Agent", USER_AGENT)
                                ELSE legacy_headers,
                    multipart |-> None]
    IN IF answer.send = "err"
       THEN [requests |-> <<request>>, result |-> Try(Fail("reqwest::Error", "send"))]
       ELSE LET read == read_to_string(answer.body, answer.broken, <<>>)
            IN [requests |-> <<request>>,
                result |-> IF read.ok THEN Ok(read.val) ELSE Try(read)]

\* OwoClient::new(key) of src/bridge/reqwest/mod.rs: Client::new() and the key
reqwest_OwoClient_new(key) == [client |-> "reqwest::Client", key |-> key]

\* OwoClient::upload_file(&self, file): self.client.upload_file(&self.key, file).
\* Each wrapper operation yields the wrapper as the call leaves it, the requests
\* and the result.
reqwest_OwoClient_upload_file(rev, self, file, answer) ==
    LET inner == upload_file(rev, self.key, file, answer)
    IN [self |-> self, requests |-> inner.requests, result |-> inner.result]

\* mutant: the key is moved out of the wrapper by the call
reqwest_OwoClient_upload_files_taking(rev, self, files, answer) ==
    LET inner == upload_files(rev, self.key, files, answer)
    IN [self |-> [self EXCEPT !.key = <<>>],
        requests |-> inner.requests, result |-> inner.result]

\* OwoClient::upload_files(&self, files)
reqwest_OwoClient_upload_files(rev, self, files, answer) ==
    LET inner == upload_files(rev, self.key, files, answer)
    IN [self |-> self, requests |-> inner.requests, result |-> inner.result]

\* OwoClient::shorten_url(&self, url)
reqwest_OwoClient_shorten_url(rev, self, url, answer) ==
    LET inner == reqwest_shorten_url(rev, self.key, url, answer)
    IN [self |-> self, requests |-> inner.requests, result |-> inner.result]

----------------------------------------------------------------------------
(* The asynchronous bridge: impl OwoRequester for hyper::Client.            *)

AsyncBuilds == {"hyper.rs", "hyper/mod.rs"}

\* Uri::from_str.  hyper's parser is the executor's, not this crate's: it is taken
\* to refuse a target holding a character that is no URI character.
Uri_from_str(s) ==
    IF \E i \in 1..Len(s) : s[i] = " "
    THEN Fail("hyper::error::UriError", "Malformed")
    ELSE Ok(s)

\* mutant: the url is percent-encoded before it is put in the target
RECURSIVE percent_encode(_)
percent_encode(s) ==
    IF s = <<>> THEN <<>>
    ELSE (CASE Head(s) = "&" -> <<"%", "2", "6">>
            [] Head(s) = "=" -> <<"%", "3", "D">>
            [] Head(s) = " " -> <<"%", "2", "0">>
            [] OTHER -> <<Head(s)>>) \o percent_encode(Tail(s))
hyper_shorten_url_escaped(rev, key, url) ==
    LET req_url == <<SHORTEN_PREFIX>> \o percent_encode(url) \o <<SHORTEN_KEY>> \o key
        uri == Uri_from_str(req_url)
    IN IF ~uri.ok
       THEN [requests |-> <<>>, result |-> Try(uri)]
       ELSE LET request == [method |-> "GET",
                            uri |-> uri.val,
                            headers |-> IF rev = "hyper/mod.rs"
                                        THEN set({}, "User-Agent", USER_AGENT)
                                        ELSE legacy_headers,
                            multipart |-> None]
            IN [requests |-> <<request>>, result |-> Ok("FutureResponse")]

\* mutant: the parse failure is ignored and the request is made all the same
hyper_shorten_url_unchecked(rev, key, url) ==
    LET req_url == <<SHORTEN_PREFIX>> \o url \o <<SHORTEN_KEY>> \o key
        request == [method |-> "GET",
                    uri |-> req_url,
                    headers |-> IF rev = "hyper/mod.rs"
                                THEN set({}, "User-Agent", USER_AGENT)
                                ELSE legacy_headers,
                    multipart |-> None]
    IN [requests |-> <<request>>, result |-> Ok("FutureResponse")]

\* Yields the requests handed to Client::request, each of which comes back as a
\* FutureResponse, and the result: the handle is named by its request here and by
\* its index in `futures` once the call has returned.
hyper_shorten_url(rev, key, url) ==
    LET req_url == <<SHORTEN_PREFIX>> \o url \o <<SHORTEN_KEY>> \o key
        uri == Uri_from_str(req_url)
    IN IF ~uri.ok
       THEN [requests |-> <<>>, result |-> Try(uri)]
       ELSE LET request == [method |-> "GET",
                            uri |-> uri.val,
                            headers |-> IF rev = "hyper/mod.rs"
                                        THEN set({}, "User-Agent", USER_AGENT)
                                        ELSE legacy_headers,
                            multipart |-> None]
            IN [requests |-> <<request>>, result |-> Ok("FutureResponse")]

\* mutant: the connector's failure is dropped and a client built without it
hyper_OwoClient_new_unchecked(key, tls) ==
    [client |-> Some([client |-> "hyper::Client", key |-> key]),
     result |-> Ok("OwoClient")]

\* OwoClient::new(key, handle): `tls` is whether HttpsConnector::new succeeds.
\* Yields the client built, if any, and the result.
hyper_OwoClient_new(key, tls) ==
    IF ~tls
    THEN [client |-> None, result |-> Try(Fail("native_tls::Error", "connector"))]
    ELSE [client |-> Some([client |-> "hyper::Client", key |-> key]),
          result |-> Ok("OwoClient")]

\* mutant: the wrapper passes an empty key
hyper_OwoClient_shorten_url_keyless(rev, self, url) ==
    LET inner == hyper_shorten_url(rev, <<>>, url)
    IN [self |-> self, requests |-> inner.requests, result |-> inner.result]

\* OwoClient::shorten_url(&self, url): self.client.shorten_url(&self.key, url).
\* Yields the wrapper as the call leaves it, the requests and the result.
hyper_OwoClient_shorten_url(rev, self, url) ==
    LET inner == hyper_shorten_url(rev, self.key, url)
    IN [self |-> self, requests |-> inner.requests, result |-> inner.result]

\* oneshot::shorten_url(key, url, handle): OwoClient::new(key, handle)?.shorten_url(url)
hyper_oneshot_shorten_url(rev, key, url, tls) ==
    LET new == hyper_OwoClient_new(key, tls)
    IN IF ~new.result.ok
       THEN [requests |-> <<>>, result |-> new.result]
       ELSE LET made == hyper_OwoClient_shorten_url(rev, new.client.v, url)
            IN [requests |-> made.requests, result |-> made.result]

\* mutant: the call waits until the request has been written
FutureResponse_written(request) ==
    [request |-> request, phase |-> "sent", writes |-> 1, response |-> None,
     error |-> None]

\* A FutureResponse just returned by Client::request: nothing has been polled.
FutureResponse(request) ==
    [request |-> request, phase |-> "pending", writes |-> 0, response |-> None,
     error |-> None]

\* mutant: the failure of the exchange is wrapped in a variant of owo::Error
FutureError_unified == Try(Fail("reqwest::Error", "transport"))

\* What a FutureResponse resolves to when the exchange fails: FutureResponse is
\* hyper's future, its error type hyper::Error; shorten_url returns the future
\* as it is and owo::Error has no variant, and no From impl, for that type.
FutureError == Fail("hyper::Error", "transport")

\* mutant: responses are handed to the handles in the order of the calls
ResponseFor_in_call_order(fs, h) ==
    LET first == CHOOSE i \in 1..Len(fs) :
                    /\ ~fs[i].response.some
                    /\ \A j \in 1..(i - 1) : fs[j].response.some
    IN [request |-> fs[h].request.uri, answers |-> fs[first].request.uri]

\* The Response a FutureResponse resolves to.  Client::request gives each request
\* a future of its own, which the reactor completes with what the server sends
\* back on that request's connection: `answers` names the request answered.
ResponseFor(fs, h) ==
    [request |-> fs[h].request.uri, answers |-> fs[h].request.uri]

----------------------------------------------------------------------------
(* The state machine *)

Init ==
    /\ build \in SyncBuilds \cup AsyncBuilds
    /\ OWO_KEY \in Keys
    /\ call = [op |-> "none", returned |-> TRUE]
    /\ owo = None
    /\ futures = <<>>
    /\ driving = {}
    /\ doc = None

\* the caller enters an operation of the synchronous bridge; its thread blocks
Enter(op, arg) ==
    /\ build \in SyncBuilds
    /\ call.returned
    /\ call' = [op |-> op, returned |-> FALSE, key |-> OWO_KEY, arg |-> arg]
    /\ UNCHANGED <<doc, build, OWO_KEY, owo, futures, driving>>

CallUploadFile == \E file \in Payloads : Enter("upload_file", file)

CallUploadFiles == \E files \in FileVectors : Enter("upload_files", files)

CallShortenUrl == \E url \in Urls : Enter("shorten_url", url)

\* the operation runs to its return, the executor answering `answer` to send()
Return(answer, outcome) ==
    /\ ~call.returned
    /\ call' = [op |-> call.op, returned |-> TRUE, key |-> call.key, arg |-> call.arg,
                tls |-> TRUE, answer |-> answer,
                requests |-> outcome.requests, result |-> outcome.result]
    /\ UNCHANGED <<doc, build, OWO_KEY, owo, futures, driving>>

UploadFile ==
    /\ call.op = "upload_file"
    /\ \E answer \in UploadAnswers :
          Return(answer, upload_file(build, call.key, call.arg, answer))

UploadFiles ==
    /\ call.op = "upload_files"
    /\ \E answer \in UploadAnswers :
          Return(answer, upload_files(build, call.key, call.arg, answer))

ShortenUrl ==
    /\ call.op = "shorten_url"
    /\ \E answer \in ShortenAnswers :
          Return(answer, reqwest_shorten_url(build, call.key, call.arg, answer))

\* let client = OwoReqwestClient::new(key)
ReqwestOwoClientNew ==
    /\ build = "reqwest/mod.rs"
    /\ call.returned
    /\ owo' = Some(reqwest_OwoClient_new(OWO_KEY))
    /\ call' = [op |-> "reqwest::OwoClient::new", returned |-> TRUE,
                key |-> OWO_KEY, arg |-> <<>>, tls |-> TRUE, answer |-> None,
                requests |-> <<>>, result |-> Ok("OwoClient")]
    /\ UNCHANGED <<doc, build, OWO_KEY, futures, driving>>

\* the caller enters an operation of the wrapper it holds
WrapperEnter(op, arg) ==
    /\ build = "reqwest/mod.rs"
    /\ owo.some
    /\ call.returned
    /\ call' = [op |-> op, returned |-> FALSE, key |-> owo.v.key, arg |-> arg]
    /\ UNCHANGED <<doc, build, OWO_KEY, owo, futures, driving>>

CallOwoClientUploadFile ==
    \E file \in Payloads : WrapperEnter("reqwest::OwoClient::upload_file", file)

CallOwoClientUploadFiles ==
    \E files \in FileVectors : WrapperEnter("reqwest::OwoClient::upload_files", files)

CallOwoClientShortenUrl ==
    \E url \in Urls : WrapperEnter("reqwest::OwoClient::shorten_url", url)

\* the wrapper's operation runs to its return
WrapperReturn(answer, outcome) ==
    /\ ~call.returned
    /\ owo' = Some(outcome.self)
    /\ call' = [op |-> call.op, returned |-> TRUE, key |-> call.key, arg |-> call.arg,
                tls |-> TRUE, answer |-> answer,
                requests |-> outcome.requests, result |-> outcome.result]
    /\ UNCHANGED <<doc, build, OWO_KEY, futures, driving>>

OwoClientUploadFile ==
    /\ call.op = "reqwest::OwoClient::upload_file"
    /\ \E answer \in UploadAnswers :
          WrapperReturn(answer,
                        reqwest_OwoClient_upload_file(build, owo.v, call.arg, answer))

OwoClientUploadFiles ==
    /\ call.op = "reqwest::OwoClient::upload_files"
    /\ \E answer \in UploadAnswers :
          WrapperReturn(answer,
                        reqwest_OwoClient_upload_files(build, owo.v, call.arg, answer))

OwoClientShortenUrl ==
    /\ call.op = "reqwest::OwoClient::shorten_url"
    /\ \E answer \in ShortenAnswers :
          WrapperReturn(answer,
                        reqwest_OwoClient_shorten_url(build, owo.v, call.arg, answer))

\* a call of the asynchronous bridge: returns at once; every request it handed to
\* the executor is a new pending FutureResponse
AsyncCall(op, url, tls, outcome) ==
    /\ call.returned
    /\ Len(futures) + Len(outcome.requests) <= MaxFutures
    /\ futures' = futures \o [i \in 1..Len(outcome.requests) |->
                                 FutureResponse(outcome.requests[i])]
    /\ call' = [op |-> op, returned |-> TRUE, key |-> OWO_KEY, arg |-> url,
                tls |-> tls, answer |-> None,
                requests |-> outcome.requests, result |-> outcome.result]
    /\ UNCHANGED <<doc, build, OWO_KEY, driving>>

HyperShortenUrl ==
    /\ build \in AsyncBuilds
    /\ \E url \in Urls :
          AsyncCall("hyper::shorten_url", url, TRUE,
                    hyper_shorten_url(build, OWO_KEY, url))
    /\ UNCHANGED owo

HyperOwoClientNew ==
    /\ build = "hyper/mod.rs"
    /\ call.returned
    /\ \E tls \in BOOLEAN :
          LET new == hyper_OwoClient_new(OWO_KEY, tls)
          IN /\ owo' = IF new.result.ok THEN new.client ELSE owo
             /\ call' = [op |-> "hyper::OwoClient::new", returned |-> TRUE,
                         key |-> OWO_KEY, arg |-> <<>>, tls |-> tls, answer |-> None,
                         requests |-> <<>>, result |-> new.result]
    /\ UNCHANGED <<doc, build, OWO_KEY, futures, driving>>

HyperOwoClientShortenUrl ==
    /\ build = "hyper/mod.rs"
    /\ owo.some
    /\ \E url \in Urls :
          LET outcome == hyper_OwoClient_shorten_url(build, owo.v, url)
          IN /\ AsyncCall("hyper::OwoClient::shorten_url", url, TRUE, outcome)
             /\ owo' = Some(outcome.self)

HyperOneshotShortenUrl ==
    /\ build = "hyper/mod.rs"
    /\ \E url \in Urls, tls \in BOOLEAN :
          AsyncCall("hyper::oneshot::shorten_url", url, tls,
                    hyper_oneshot_shorten_url(build, OWO_KEY, url, tls))
    /\ UNCHANGED owo

Finished(f) == f.phase \in {"failed", "done"}

\* core.run(runner): the caller drives the event loop for the futures in S
CoreRun ==
    /\ driving = {}
    /\ \E S \in SUBSET (1..Len(futures)) :
          /\ S # {}
          /\ \A h \in S : ~Finished(futures[h])
          /\ driving' = S
    /\ UNCHANGED <<doc, build, OWO_KEY, call, owo, futures>>

\* the caller stops driving the loop: run returned, or the caller gave up
CoreStop ==
    /\ driving # {}
    /\ driving' = {}
    /\ UNCHANGED <<doc, build, OWO_KEY, call, owo, futures>>

\* one step of the reactor on a driven future
Step(h, f) ==
    /\ h \in driving
    /\ futures' = [futures EXCEPT ![h] = f]
    /\ UNCHANGED <<doc, build, OWO_KEY, call, owo, driving>>

\* the connection is made and the request written to the socket
ReactorWrite ==
    \E h \in driving :
        /\ futures[h].phase = "pending"
        /\ Step(h, [futures[h] EXCEPT !.phase = "sent", !.writes = @ + 1])

\* connecting or the exchange fails: the future resolves to a hyper::Error
ReactorFail ==
    \E h \in driving :
        /\ futures[h].phase \in {"pending", "sent", "streaming"}
        /\ Step(h, [futures[h] EXCEPT !.phase = "failed", !.error = Some(FutureError)])

\* the response head arrives: the future resolves to a Response
ReactorResponse ==
    \E h \in driving :
        /\ futures[h].phase = "sent"
        /\ Step(h, [futures[h] EXCEPT !.phase = "streaming",
                                      !.response = Some(ResponseFor(futures, h))])

\* res.body().for_each(..): the body is streamed to its end
ReactorBody ==
    \E h \in driving :
        /\ futures[h].phase = "streaming"
        /\ Step(h, [futures[h] EXCEPT !.phase = "done"])

Next ==
    \/ CallUploadFile
    \/ CallUploadFiles
    \/ CallShortenUrl
    \/ UploadFile
    \/ UploadFiles
    \/ ShortenUrl
    \/ ReqwestOwoClientNew
    \/ CallOwoClientUploadFile
    \/ CallOwoClientUploadFiles
    \/ CallOwoClientShortenUrl
    \/ OwoClientUploadFile
    \/ OwoClientUploadFiles
    \/ OwoClientShortenUrl
    \/ HyperShortenUrl
    \/ HyperOwoClientNew
    \/ HyperOwoClientShortenUrl
    \/ HyperOneshotShortenUrl
    \/ CoreRun
    \/ CoreStop
    \/ ReactorWrite
    \/ ReactorFail
    \/ ReactorResponse
    \/ ReactorBody

Spec == Init /\ [][Next]_vars

----------------------------------------------------------------------------
(* The data model on its own: a caller builds a FileUploadResponse, encodes   *)
(* it with serde_json and decodes the text again.                            *)

SerdeInit ==
    /\ build = "reqwest/mod.rs"
    /\ OWO_KEY = <<"a">>
    /\ call = [op |-> "none", returned |-> TRUE]
    /\ owo = None
    /\ futures = <<>>
    /\ driving = {}
    /\ doc \in {[stage |-> "value", value |-> response] :
                    response \in FileUploadResponses}

Encode ==
    /\ doc.stage = "value"
    /\ doc' = [stage |-> "text", value |-> doc.value, text |-> to_string(doc.value)]
    /\ UNCHANGED <<build, OWO_KEY, call, owo, futures, driving>>

Decode ==
    /\ doc.stage = "text"
    /\ doc' = [stage |-> "decoded", value |-> doc.value, text |-> doc.text,
               decoded |-> from_str(doc.text)]
    /\ UNCHANGED <<build, OWO_KEY, call, owo, futures, driving>>

SerdeNext == Encode \/ Decode

SerdeSpec == SerdeInit /\ [][SerdeNext]_vars

----------------------------------------------------------------------------
(* Properties *)

SyncOps == {"upload_file", "upload_files", "shorten_url"}
AsyncOps == {"hyper::shorten_url", "hyper::OwoClient::shorten_url",
             "hyper::oneshot::shorten_url"}

SyncReturned(op) == call.op = op /\ call.returned

\* C1: upload_files with more than MAX_FILES (3) payloads returns TooManyFiles
\* and hands no request to the executor.
C1_TooManyFiles ==
    (SyncReturned("upload_files") /\ Len(call.arg) > 3)
        => /\ ~call.result.ok
           /\ call.result.err = "TooManyFiles"
           /\ call.requests = <<>>

C1_Witness ==
    /\ SyncReturned("upload_files")
    /\ Len(call.arg) = 4
    /\ call.answer.send = "ok"
    /\ call.result.err = "TooManyFiles"

\* C2: upload_files with n payloads, 1 <= n <= 3, issues exactly one POST whose
\* multipart body holds exactly n parts, all named files[], the i-th part
\* carrying the i-th payload.
C2_OnePostInOrder ==
    (SyncReturned("upload_files") /\ Len(call.arg) >= 1 /\ Len(call.arg) <= 3)
        => /\ Len(call.requests) = 1
           /\ call.requests[1].method = "POST"
           /\ call.requests[1].multipart.some
           /\ Len(call.requests[1].multipart.v) = Len(call.arg)
           /\ \A i \in 1..Len(call.arg) :
                 /\ call.requests[1].multipart.v[i].name = "files[]"
                 /\ call.requests[1].multipart.v[i].data = call.arg[i]

C2_Witness ==
    /\ SyncReturned("upload_files")
    /\ Len(call.arg) = 3
    /\ call.arg[1] # call.arg[2]
    /\ Len(call.requests) = 1
    /\ call.requests[1].multipart.v[2].data = call.arg[2]

\* C3: upload_file(key, b) issues the request upload_files(key, [b]) issues, one
\* POST to the same target with one part named files[] holding b, and returns
\* what upload_files returns for the same answer of the executor.
C3_UploadFileAsUploadFiles ==
    SyncReturned("upload_file")
        => LET many == upload_files(build, call.key, <<call.arg>>, call.answer)
           IN /\ call.requests = many.requests
              /\ call.result = many.result
              /\ Len(call.requests) = 1
              /\ call.requests[1].method = "POST"
              /\ call.requests[1].uri
                    = <<"https://api.awau.moe/upload/pomf?key=">> \o call.key
              /\ call.requests[1].multipart
                    = Some(<<[name |-> "files[]", data |-> call.arg]>>)

C3_Witness ==
    /\ SyncReturned("upload_file")
    /\ call.result.ok
    /\ Len(call.result.val.files) = 1

\* C4: shorten_url issues exactly one GET to
\* https://api.awau.moe/shorten/polr?action=shorten&url=<url>&key=<key> and, when
\* sending and reading succeed, returns the response body as a string, unmodified.
C4_ShortenVerbatim ==
    SyncReturned("shorten_url")
        => /\ Len(call.requests) = 1
           /\ call.requests[1].method = "GET"
           /\ call.requests[1].uri
                 = <<"https://api.awau.moe/shorten/polr?action=shorten&url=">>
                   \o call.arg \o <<"&key=">> \o call.key
           /\ call.result.ok => as_bytes(call.result.val) = call.answer.body
           /\ (call.answer.send = "ok" /\ ~call.answer.broken
               /\ Utf8Decode(call.answer.body, 1).ok) => call.result.ok

C4_Witness ==
    /\ SyncReturned("shorten_url")
    /\ call.arg # call.key
    /\ call.result.ok
    /\ call.answer.body = <<32, 97, 32>>
    /\ call.result.val = <<" ", "a", " ">>

\* C5: every request issued by either bridge carries the fixed User-Agent header
\* value.
C5_UserAgentOnEveryRequest ==
    LET agent == [name |-> "User-Agent",
                  value |-> <<"WhatsThisClient (https://github.com/whats-this/owo.rs, ",
                              CARGO_PKG_VERSION, ")">>]
    IN /\ (call.returned /\ call.op # "none")
              => \A i \in 1..Len(call.requests) : agent \in call.requests[i].headers
       /\ \A h \in 1..Len(futures) : agent \in futures[h].request.headers

\* C6: when the secure-transport connector cannot be built, OwoClient::new of the
\* asynchronous bridge returns Error::NativeTls and attempts no request, and so
\* does the oneshot shorten_url, which builds such a client first.
C6_TlsSetup ==
    (call.op \in {"hyper::OwoClient::new", "hyper::oneshot::shorten_url"} /\ ~call.tls)
        => /\ ~call.result.ok
           /\ call.result.err = "NativeTls"
           /\ call.requests = <<>>

C6_Witness ==
    /\ call.op = "hyper::oneshot::shorten_url"
    /\ ~call.tls
    /\ Uri_from_str(call.arg).ok
    /\ call.result.err = "NativeTls"
    /\ futures = <<>>

\* C7: when the target built from key and url does not parse as a URI, the
\* asynchronous shorten_url returns Error::Uri and hands no request to the
\* executor.
C7_InvalidUri ==
    (call.op \in AsyncOps /\ call.tls
     /\ ~Uri_from_str(<<SHORTEN_PREFIX>> \o call.arg \o <<SHORTEN_KEY>> \o call.key).ok)
        => /\ ~call.result.ok
           /\ call.result.err = "Uri"
           /\ call.requests = <<>>

C7_Witness ==
    /\ call.op = "hyper::shorten_url"
    /\ call.arg = <<"a", " ">>
    /\ call.result.err = "Uri"
    /\ futures = <<>>

\* C8: the asynchronous shorten_url returns its pending response without waiting:
\* a handle is pending when the call returns, and a handle changes (its request
\* written, its response or its body received) only in a step in which the
\* caller is driving it, so a handle never driven never yields a response.
C8_LazyUntilDriven ==
    [][\A h \in 1..Len(futures') :
          /\ h > Len(futures) => futures'[h].phase = "pending" /\ futures'[h].writes = 0
          /\ (h <= Len(futures) /\ futures'[h] # futures[h]) => h \in driving]_vars

C8_Witness ==
    /\ Len(futures) = 2
    /\ futures[1].phase = "pending"
    /\ futures[2].phase = "done"
    /\ driving = {}

\* C9: no operation retries: a call hands at most one request to the executor,
\* a request is written at most once, and a failed send ends the call with the
\* error returned.
C9_NoRetry ==
    /\ (call.returned /\ call.op # "none") => Len(call.requests) <= 1
    /\ \A h \in 1..Len(futures) : futures[h].writes <= 1
    /\ (call.returned /\ call.op \in SyncOps /\ call.requests # <<>>
        /\ call.answer.send = "err")
           => ~call.result.ok /\ call.result.err = "Reqwest"

C9_Witness ==
    /\ SyncReturned("upload_files")
    /\ Len(call.arg) = 2
    /\ call.answer.send = "err"
    /\ Len(call.requests) = 1
    /\ ~call.result.ok

\* the executor failed during the call: send() failed, or the body stream of
\* the response it returned failed while it was read
ExecutorFailed ==
    /\ call.returned /\ call.op \in SyncOps /\ call.requests # <<>>
    /\ call.answer.send = "err" \/ call.answer.broken

\* C10: in the synchronous bridge every failure coming from the HTTP executor
\* surfaces as Error::Reqwest, and every failure to decode an upload response
\* body surfaces as Error::Json.
C10_ExecutorFailuresAsReqwest ==
    /\ ExecutorFailed => ~call.result.ok /\ call.result.err = "Reqwest"
    /\ (call.returned /\ call.op \in {"upload_file", "upload_files"}
        /\ call.requests # <<>> /\ call.answer.send = "ok" /\ ~call.answer.broken
        /\ ~call.result.ok) => call.result.err = "Json"

\* C10 as amended: a failure of send() surfaces as Error::Reqwest; a failure to
\* decode an upload response body, a failure of its stream included, surfaces as
\* Error::Json; in shorten_url a failure of the body stream, or a body that is
\* not UTF-8, surfaces as Error::Io.
C10_SendReqwestDecodeJsonReadIo ==
    (call.returned /\ call.op \in SyncOps /\ call.requests # <<>>)
        => /\ call.answer.send = "err"
                => ~call.result.ok /\ call.result.err = "Reqwest"
           /\ (call.op # "shorten_url" /\ call.answer.send = "ok" /\ ~call.result.ok)
                => call.result.err = "Json"
           /\ (call.op # "shorten_url" /\ call.answer.send = "ok" /\ call.answer.broken)
                => ~call.result.ok
           /\ (call.op = "shorten_url" /\ call.answer.send = "ok"
               /\ (call.answer.broken \/ call.answer.body \in {<<97, 255>>, <<195>>}))
                => ~call.result.ok /\ call.result.err = "Io"

C10_Witness ==
    /\ SyncReturned("shorten_url")
    /\ call.answer.send = "ok"
    /\ call.answer.broken
    /\ call.answer.body = <<97, 47, 98>>
    /\ call.result.err = "Io"

\* what the operation of the returned call yields when the executor answers
\* `answer` instead
SyncOutcome(answer) ==
    CASE call.op = "upload_file" -> upload_file(build, call.key, call.arg, answer)
      [] call.op = "upload_files" -> upload_files(build, call.key, call.arg, answer)
      [] call.op = "shorten_url" -> reqwest_shorten_url(build, call.key, call.arg, answer)

\* C11: the result of a synchronous operation does not depend on the status code
\* of the response: two responses with the same body (and the same fate of the
\* body stream) and different status codes give the same result, the decoded
\* value or decode error for uploads and the same Ok(body) for shorten_url.
C11_StatusIndependent ==
    (call.returned /\ call.op \in SyncOps /\ call.answer.send = "ok")
        => \A status \in Statuses :
              LET other == Response(status, call.answer.body, call.answer.broken)
              IN /\ SyncOutcome(other).result = call.result
                 /\ SyncOutcome(other).requests = call.requests

C11_Witness ==
    /\ SyncReturned("upload_files")
    /\ call.answer.send = "ok"
    /\ call.answer.status = 500
    /\ call.result.ok
    /\ Len(call.result.val.files) = 2
    /\ SyncOutcome(Response(200, call.answer.body, FALSE)).result = call.result

\* a JSON value that conforms to the schema of the upload response: an object
\* with a boolean `success` and an array `files` of objects with strings `hash`
\* and `url`, a string or null `name` and an unsigned integer `size`
SchemaFile(f) ==
    /\ f.t = "obj"
    /\ {"hash", "name", "size", "url"} \subseteq DOMAIN f.o
    /\ f.o.hash.t = "str" /\ f.o.url.t = "str"
    /\ f.o.name.t \in {"str", "null"}
    /\ f.o.size.t = "num" /\ f.o.size.n >= 0
Schema(v) ==
    /\ v.t = "obj"
    /\ {"success", "files"} \subseteq DOMAIN v.o
    /\ v.o.success.t = "bool"
    /\ v.o.files.t = "arr"
    /\ \A i \in 1..Len(v.o.files.a) : SchemaFile(v.o.files.a[i])

\* an upload returned after the executor delivered `body` whole
UploadRead ==
    /\ call.returned /\ call.op \in {"upload_file", "upload_files"}
    /\ call.requests # <<>>
    /\ call.answer.send = "ok" /\ ~call.answer.broken

\* the lexemes of the body that are not whitespace
Lexemes(body) == SelectSeq(body, LAMBDA tok : ~IsWhitespace(tok))

\* C12: an upload response body that conforms to the schema decodes to a
\* FileUploadResponse whose fields equal the JSON values: success as given, the
\* files in the same number and order, a null name as None, a string name as
\* Some, size as the unsigned integer given.
C12_DecodeFields ==
    (/\ UploadRead
     /\ Len(Lexemes(call.answer.body)) = 1
     /\ "j" \in DOMAIN Lexemes(call.answer.body)[1]
     /\ Schema(Lexemes(call.answer.body)[1].j))
        => LET v == Lexemes(call.answer.body)[1].j.o
               r == call.result
           IN /\ r.ok
              /\ r.val.success = v.success.b
              /\ Len(r.val.files) = Len(v.files.a)
              /\ \A i \in 1..Len(v.files.a) :
                    LET f == v.files.a[i].o
                        g == r.val.files[i]
                    IN /\ g.hash = f.hash.s
                       /\ g.url = f.url.s
                       /\ g.size = f.size.n
                       /\ f.name.t = "null" => g.name = [some |-> FALSE]
                       /\ f.name.t = "str" => g.name = [some |-> TRUE, v |-> f.name.s]

C12_Witness ==
    /\ UploadRead
    /\ call.answer.body = <<Json(TwoFiles)>>
    /\ call.result.ok
    /\ call.result.val.success
    /\ call.result.val.files[1].name = Some("a.png")
    /\ call.result.val.files[1].size = 0
    /\ call.result.val.files[2].name = None
    /\ call.result.val.files[2].size = 42

\* C13: for every FileUploadResponse (either success flag, any sequence of
\* files, names present or absent) encoding it to JSON and decoding the text
\* yields a value equal to the original in every field.
C13_RoundTrip ==
    doc.stage = "decoded"
        => /\ doc.decoded.ok
           /\ doc.decoded.val.success = doc.value.success
           /\ Len(doc.decoded.val.files) = Len(doc.value.files)
           /\ \A i \in 1..Len(doc.value.files) :
                 /\ doc.decoded.val.files[i].hash = doc.value.files[i].hash
                 /\ doc.decoded.val.files[i].name = doc.value.files[i].name
                 /\ doc.decoded.val.files[i].size = doc.value.files[i].size
                 /\ doc.decoded.val.files[i].url = doc.value.files[i].url

C13_Witness ==
    /\ doc.stage = "decoded"
    /\ ~doc.value.success
    /\ Len(doc.value.files) = 2
    /\ doc.value.files[1].name = None
    /\ doc.value.files[2].name = Some("a.png")
    /\ doc.value.files[1].size # doc.value.files[2].size
    /\ doc.decoded = Ok(doc.value)

\* the number of payloads submitted in the returned upload call
Submitted == IF call.op = "upload_file" THEN 1 ELSE Len(call.arg)

WrapperOps == {"reqwest::OwoClient::upload_file", "reqwest::OwoClient::upload_files",
               "reqwest::OwoClient::shorten_url", "hyper::OwoClient::shorten_url"}

\* what the bridge operation behind the returned wrapper call yields when called
\* with key k
BridgeOutcome(k) ==
    CASE call.op = "reqwest::OwoClient::upload_file"
            -> upload_file(build, k, call.arg, call.answer)
      [] call.op = "reqwest::OwoClient::upload_files"
            -> upload_files(build, k, call.arg, call.answer)
      [] call.op = "reqwest::OwoClient::shorten_url"
            -> reqwest_shorten_url(build, k, call.arg, call.answer)
      [] call.op = "hyper::OwoClient::shorten_url"
            -> hyper_shorten_url(build, k, call.arg)

\* the variants of Error the bridge operation behind a wrapper call can return
BridgeErrors ==
    CASE call.op = "reqwest::OwoClient::upload_file" -> {"Reqwest", "Json"}
      [] call.op = "reqwest::OwoClient::upload_files" -> {"Reqwest", "Json", "TooManyFiles"}
      [] call.op = "reqwest::OwoClient::shorten_url" -> {"Reqwest", "Io"}
      [] call.op = "hyper::OwoClient::shorten_url" -> {"Uri"}

\* C15: each operation of the OwoClient wrapper (synchronous upload_file,
\* upload_files, shorten_url; asynchronous shorten_url) on a wrapper holding key
\* k issues the request and returns the result of the bridge operation called
\* with k, and fails only with the errors of that bridge operation.
C15_WrapperDelegates ==
    (call.returned /\ call.op \in WrapperOps)
        => /\ owo.some
           /\ call.requests = BridgeOutcome(owo.v.key).requests
           /\ call.result = BridgeOutcome(owo.v.key).result
           /\ ~call.result.ok => call.result.err \in BridgeErrors

C15_Witness ==
    /\ call.returned
    /\ call.op = "reqwest::OwoClient::upload_files"
    /\ owo.v.key = <<"b", "a">>
    /\ Len(call.arg) = 2
    /\ call.requests[1].uri = <<UPLOAD_PREFIX, "b", "a">>
    /\ call.result.ok
    /\ Len(call.result.val.files) = 2

\* C16: upload_files uploads the files one-by-one: for n >= 1 payloads it issues n
\* upload requests, one after another in input order, the i-th request carrying
\* the i-th payload alone.
C16_OneFilePerRequest ==
    (call.returned
     /\ call.op \in {"upload_files", "reqwest::OwoClient::upload_files"}
     /\ Len(call.arg) >= 1 /\ Len(call.arg) <= 3)
        => /\ Len(call.requests) = Len(call.arg)
           /\ \A i \in 1..Len(call.arg) :
                 /\ call.requests[i].method = "POST"
                 /\ call.requests[i].multipart
                       = Some(<<[name |-> "files[]", data |-> call.arg[i]]>>)

\* the text of a string given as its fragments
RECURSIVE Text(_)
Text(s) == IF s = <<>> THEN "" ELSE Head(s) \o Text(Tail(s))

\* the target the returned call must have built from its key and argument
Target ==
    IF call.op \in {"upload_file", "upload_files", "reqwest::OwoClient::upload_file",
                    "reqwest::OwoClient::upload_files"}
    THEN "https://api.awau.moe/upload/pomf?key=" \o Text(call.key)
    ELSE "https://api.awau.moe/shorten/polr?action=shorten&url=" \o Text(call.arg)
         \o "&key=" \o Text(call.key)

\* C17: in both bridges the request target is the fixed template with key and
\* url inserted verbatim, nothing percent-encoded or escaped: uploads go to
\* https://api.awau.moe/upload/pomf?key=<key>, shorten to
\* ...polr?action=shorten&url=<url>&key=<key>, so a url holding "&key=x" gives a
\* target in which that key parameter comes before the caller's key.
C17_VerbatimTarget ==
    /\ (call.returned /\ call.op # "none")
          => \A i \in 1..Len(call.requests) : Text(call.requests[i].uri) = Target
    /\ (call.returned /\ call.op # "none" /\ call.requests # <<>>
        /\ call.arg = <<"b", "&", "k", "e", "y", "=", "x">>)
          => Text(call.requests[1].uri)
                = "https://api.awau.moe/shorten/polr?action=shorten&url=b&key=x&key="
                  \o Text(call.key)
    /\ \A h \in 1..Len(futures) :
          \E url \in Urls :
             Text(futures[h].request.uri)
                = "https://api.awau.moe/shorten/polr?action=shorten&url=" \o Text(url)
                  \o "&key=" \o Text(OWO_KEY)

C17_Witness ==
    /\ call.op = "hyper::shorten_url"
    /\ call.arg = <<"b", "&", "k", "e", "y", "=", "x">>
    /\ call.result.ok
    /\ Len(futures) = 1
    /\ Text(futures[1].request.uri)
          = "https://api.awau.moe/shorten/polr?action=shorten&url=b&key=x&key=a"

\* C18: uploads return the decoded response as it is: a body that decodes to
\* success == true with no files, or to success == false, is returned as Ok
\* with exactly those fields and is never turned into an error.
C18_NoValidation ==
    (/\ UploadRead
     /\ Len(Lexemes(call.answer.body)) = 1
     /\ "j" \in DOMAIN Lexemes(call.answer.body)[1]
     /\ de_FileUploadResponse(Lexemes(call.answer.body)[1].j).ok)
        => LET decoded == de_FileUploadResponse(Lexemes(call.answer.body)[1].j).val
           IN (~decoded.success \/ decoded.files = <<>>)
                 => /\ call.result.ok
                    /\ call.result.val.success = decoded.success
                    /\ call.result.val.files = decoded.files

C18_Witness ==
    /\ UploadRead
    /\ call.op = "upload_file"
    /\ call.answer.body = <<Json(Refused)>>
    /\ call.result.ok
    /\ ~call.result.val.success
    /\ call.result.val.files = <<>>

\* C19: no operation of the OwoClient wrapper changes the wrapper: in every
\* step taken while a wrapper exists, a call that succeeds or fails included,
\* the wrapper is left as it was, so its key is the key it was built with and
\* its executor handle the one made at construction.
C19_WrapperUnchanged ==
    /\ [](owo.some
            => /\ owo.v.key = OWO_KEY
               /\ owo.v.client = IF build = "reqwest/mod.rs" THEN "reqwest::Client"
                                  ELSE "hyper::Client")
    /\ [][owo.some => owo' = owo]_vars

C19_Witness ==
    /\ call.returned
    /\ call.op = "reqwest::OwoClient::upload_files"
    /\ Len(call.arg) = 2
    /\ call.answer.send = "err"
    /\ ~call.result.ok
    /\ owo = Some([client |-> "reqwest::Client", key |-> <<"b", "a">>])

C21_EmptyVectorSent ==
    (call.returned
     /\ call.op \in {"upload_files", "reqwest::OwoClient::upload_files"}
     /\ call.arg = <<>>)
        => /\ Len(call.requests) = 1
           /\ call.requests[1].method = "POST"
           /\ call.requests[1].uri = <<UPLOAD_PREFIX>> \o call.key
           /\ call.requests[1].multipart = [some |-> TRUE, v |-> <<>>]
           /\ ~call.result.ok => call.result.err \in {"Reqwest", "Json"}
           /\ (call.answer.send = "ok" /\ ~call.answer.broken
               /\ call.answer.body = <<Json(NoFiles)>>) => call.result.ok

C21_Witness ==
    /\ SyncReturned("upload_files")
    /\ call.arg = <<>>
    /\ Len(call.requests) = 1
    /\ call.requests[1].multipart.v = <<>>
    /\ call.result.ok
    /\ call.result.val.files = <<>>

\* a synchronous shorten_url, through the bridge or the wrapper, has returned
ShortenReturned ==
    call.returned /\ call.op \in {"shorten_url", "reqwest::OwoClient::shorten_url"}

\* C22: in the synchronous shorten_url a failure while the response body is
\* read into a string (the stream fails, or the body is not valid UTF-8) is
\* returned as Error::Io, never as Error::Reqwest, and Error::Io is returned
\* only after the single GET was sent and a response received.
C22_ReadFailureIsIo ==
    ShortenReturned
        => /\ (call.answer.send = "ok"
               /\ (call.answer.broken \/ ~Utf8Decode(call.answer.body, 1).ok))
                 => /\ ~call.result.ok
                    /\ call.result.err = "Io"
                    /\ call.result.err # "Reqwest"
           /\ (~call.result.ok /\ call.result.err = "Io")
                 => /\ Len(call.requests) = 1
                    /\ call.requests[1].method = "GET"
                    /\ call.answer.send = "ok"
                    /\ call.answer.broken \/ ~Utf8Decode(call.answer.body, 1).ok

C22_Witness ==
    /\ ShortenReturned
    /\ call.answer.send = "ok"
    /\ ~call.answer.broken
    /\ call.answer.body = <<97, 255>>
    /\ Len(call.requests) = 1
    /\ ~call.result.ok
    /\ call.result.err = "Io"
    /\ call.result.detail = "InvalidData"

\* C23: the asynchronous shorten_url called on an executor returns Err only as
\* Error::Uri, before any request exists; a transport failure of a request never
\* is a value returned by shorten_url: the call that made the request returned
\* Ok, and the failure shows only when the pending response resolves, as the
\* executor's own error (hyper::Error), which is no variant of Error.
C23_OnlyUriReturned ==
    /\ (call.op \in {"hyper::shorten_url", "hyper::OwoClient::shorten_url"}
        /\ ~call.result.ok)
          => /\ call.result.err = "Uri"
             /\ call.requests = <<>>
    /\ (call.op \in {"hyper::shorten_url", "hyper::OwoClient::shorten_url"}
        /\ call.requests # <<>>)
          => call.result = [ok |-> TRUE, val |-> "FutureResponse"]
    /\ \A h \in 1..Len(futures) :
          /\ futures[h].error.some <=> futures[h].phase = "failed"
          /\ futures[h].error.some
                => /\ futures[h].error.v.err = "hyper::Error"
                   /\ futures[h].error.v.err \notin ErrorVariants

C23_Witness ==
    /\ call.op = "hyper::shorten_url"
    /\ call.result.ok
    /\ Len(futures) = 1
    /\ futures[1].request = call.requests[1]
    /\ futures[1].phase = "failed"
    /\ futures[1].writes = 0
    /\ futures[1].error = Some(Fail("hyper::Error", "transport"))

====
